---- MODULE Spec2Model ----
(***************************************************************************)
(* A model of python-gsl's Vector wrapper (src/src/gsl/vector.py), its     *)
(* error bridge (src/src/gsl/errors.py) and the "_e" special-function      *)
(* evaluators (src/src/gsl/sf).                                            *)
(*                                                                         *)
(* A client program holds two names, "a" and "b", each bound to a Vector   *)
(* wrapper or to nothing.  Every method of the wrapper is one action.  The *)
(* native library is modelled by its contract: the allocator returns null  *)
(* for a size it cannot serve, memcpy/add/dot return GSL_EBADLEN (19) for  *)
(* operands of different sizes, element access is range-checked by the     *)
(* library and reports a bad index only to the native error handler.       *)
(***************************************************************************)
EXTENDS Integers, Sequences, FiniteSets, TLC

\* ---------------------------------------------------------------- bounds
\* The largest vector (in elements) the native allocator can serve.
MaxLen == 2
\* The Vector wrappers, and the native vectors, that exist at one time.
MaxObjs == 5
\* The width of c_size_t in the model (bits).
SizeBits == 4
\* The largest magnitude of an element component an addition may produce.
MaxAbs == 2
\* The error handlers a program installs in its lifetime.
MaxHandlers == 2
\* The raw memory blocks a program holds at one time.
MaxBlocks == 1
\* The largest magnitude of a part of a complex number that is converted.
MaxPart == 1
\* How far below 1 and above 32 the status codes a program translates reach.
CodeMargin == 3

SizeMax == 2 ^ SizeBits

\* GSL_ENOMEM, raised for a null allocation.
NO_MEMORY == 8
\* GSL_EBADLEN, the native status for operands of different sizes.
GSL_EBADLEN == 19

VARIABLES
    objs,     \* the Vector wrappers: slot -> [tc, vp]; tc "-" is a free slot
    nat,      \* the native heap: slot -> [tc, size, data]; tc "-" is free
    tracked,  \* the finalization registry: {[owner, item]}
    refs,     \* the client's names: name -> wrapper slot (0: unbound)
    zeroOk,   \* the loaded library serves an allocation of size zero
    handler,  \* the native error handler installed: 0 is the library's
              \* no_error_handler, i the callback handlers[i]
    handlers, \* errors._handlers: what each callback kept alive calls
    blocks,   \* the native blocks block.alloc handed out: slot -> [tc, size, data]
    faults,   \* what the last operation did wrong in the native heap
    last      \* the outcome of the last operation

vars == <<objs, nat, tracked, refs, zeroOk, handler, handlers, blocks, faults,
          last>>

NameSeq == <<"a", "b">>
Names == {NameSeq[i] : i \in 1..Len(NameSeq)}

ObjIds == 1..MaxObjs
BlockIds == 1..MaxBlocks

\* A free wrapper slot, and a free (never allocated, or freed) native slot.
NoObj == [tc |-> "-", vp |-> 0]
NoNat == [tc |-> "-", size |-> 0, data |-> <<>>]

\* The lowest slot of S, or cap when there is none.
Lowest(S, cap) == IF S = {} THEN cap ELSE CHOOSE w \in S : \A v \in S : w <= v

\* ------------------------------------------------------ host-side values
\* A Python number: a real (int/float) or a complex.
Real(r) == [k |-> "r", re |-> r, im |-> 0]
Cx(x, y) == [k |-> "c", re |-> x, im |-> y]
NoVal == [k |-> "none", re |-> 0, im |-> 0]

\* The element values the client constructs vectors from and assigns.
HostVals == {Real(1), Cx(2, 1)}

\* Python's == on numbers: 1.0 == (1+0j).
PyEq(u, v) == u.k # "none" /\ v.k # "none" /\ u.re = v.re /\ u.im = v.im

\* Python's + on numbers: complex if either operand is.
PyAdd(u, v) ==
    [k |-> IF u.k = "c" \/ v.k = "c" THEN "c" ELSE "r",
     re |-> u.re + v.re, im |-> u.im + v.im]

\* Python's * on numbers.
PyMul(u, v) ==
    [k |-> IF u.k = "c" \/ v.k = "c" THEN "c" ELSE "r",
     re |-> u.re * v.re - u.im * v.im, im |-> u.re * v.im + u.im * v.re]

\* isinstance(x, Real)
IsReal(v) == v.k = "r"

\* gsl_complex.from_complex(c): the pair (c.real, c.imag).
from_complex(c) == <<c.re, c.im>>

\* gsl_complex.__complex__: complex(*self.dat).
to_complex(g) == Cx(g[1], g[2])

\* A Python object as == meets it: its class and its two items.
Obj(cls, dat) == [cls |-> cls, dat |-> dat]
NoOther == Obj("-", <<0, 0>>)

\* An equality that compares the real parts only.
gsl_complex_eq_real(self, other) ==
    other.cls = "gsl_complex" /\ self[1] = other.dat[1]

\* gsl_complex.__eq__: isinstance(other, self.__class__) and all items of
\* zip(self.dat, other.dat) equal.
gsl_complex_eq(self, other) ==
    other.cls = "gsl_complex" /\ \A i \in 1..2 : self[i] = other.dat[i]

\* ------------------------------------------------------------ error table
\* A table that knows no code.
error_codes_empty == [c \in 1..32 |-> "Exception"]

error_codes ==
    [c \in 1..32 |->
        CASE c \in {1, 2, 3, 4, 13} -> "ValueError"
          [] c \in {5, 7, 9, 10, 11, 14, 27, 28, 29, 30, 31} -> "RuntimeError"
          [] c \in {6, 15, 17, 18, 21, 22} -> "ArithmeticError"
          [] c \in {8, 25, 26} -> "MemoryError"
          [] c = 12 -> "ZeroDivisionError"
          [] c = 16 -> "OverflowError"
          [] c \in {19, 20} -> "TypeError"
          [] c = 23 -> "OSError"
          [] c = 24 -> "NotImplementedError"
          [] c = 32 -> "EOFError"]

\* A translation that knows the codes below 32 only.
exception_from_result_short(error_code) ==
    IF error_code \in 1..31 THEN error_codes[error_code] ELSE "Exception"

\* error_codes.get(error_code, Exception)
exception_from_result(error_code) ==
    IF error_code \in DOMAIN error_codes THEN error_codes[error_code]
    ELSE "Exception"

\* A handler that raises the generic exception for every code.
exception_on_error_generic(reason, file, line, errno) ==
    [raised |-> "Exception", text |-> reason]

\* exception_on_error(reason, file, line, errno): raises
\* error_codes.get(errno, Exception) with the text of reason.
exception_on_error(reason, file, line, errno) ==
    [raised |-> IF errno \in DOMAIN error_codes THEN error_codes[errno]
                ELSE "Exception",
     text |-> reason]

\* ------------------------------------------------------- the native layer
\* The conversion of a Python int to c_size_t: no overflow check, modulo 2^w.
ToSizeT(i) == i % SizeMax

Zero(tc) == IF tc = "C" THEN <<0, 0>> ELSE 0

\* What uninitialised storage holds: no value the program ever writes.
Junk(tc) == IF tc = "C" THEN <<0 - SizeMax, 0 - SizeMax>> ELSE 0 - SizeMax

\* What the machine is threaded through one operation: the heap, and what the
\* operation did at the native boundary.  full: the operation needs more
\* slots than the model has, and is not taken.
Machine(o, n, t) ==
    [objs |-> o, nat |-> n, tracked |-> t,
     gets |-> 0, sets |-> 0, writes |-> {}, nulls |-> 0, reports |-> 0,
     allocs |-> 0, frees |-> 0,
     zeroOk |-> zeroOk, uaf |-> FALSE, refreed |-> FALSE, st |-> <<>>, full |-> FALSE]

\* gsl_vector_alloc / gsl_vector_calloc (and the complex pair): null for a size
\* the allocator cannot serve; a zero size is served or not, by the library's
\* version (zeroOk).  alloc leaves the elements uninitialised.
native_alloc(m, tc, size, init) ==
    LET n == ToSizeT(size)
        null == n > MaxLen \/ (n = 0 /\ ~m.zeroOk)
        free == {p \in ObjIds : m.nat[p].tc = "-"}
        p == Lowest(free, MaxObjs)
    IN IF null
       THEN [m |-> [m EXCEPT !.nulls = @ + 1, !.reports = @ + 1,
                             !.allocs = @ + 1],
             p |-> 0]
       ELSE IF free = {}
       THEN [m |-> [m EXCEPT !.full = TRUE], p |-> 0]
       ELSE [m |-> [m EXCEPT !.allocs = @ + 1,
                             !.nat[p] =
                        [tc |-> tc, size |-> n,
                         data |-> [i \in 1..n |->
                                     IF init THEN Zero(tc) ELSE Junk(tc)]]],
             p |-> p]

\* gsl_vector_free: the storage is released and its slot can be served again.
native_free(v) == NoNat

\* Any access to a native vector that is not allocated is a use after free.
Touch(m, p) == [m EXCEPT !.uaf = @ \/ m.nat[p].tc = "-"]

\* gsl_vector_set: range-checked by the library; a bad index is reported to
\* the native error handler only, and nothing is written.
native_set(m, p, i, x) ==
    LET t == [Touch(m, p) EXCEPT !.sets = @ + 1]
    IN IF i < t.nat[p].size
       THEN [t EXCEPT !.nat[p].data[i + 1] = x, !.writes = @ \cup {p}]
       ELSE [t EXCEPT !.reports = @ + 1]

\* gsl_vector_get for an index in range.
native_get(m, p, i) ==
    [m |-> [Touch(m, p) EXCEPT !.gets = @ + 1],
     val |-> IF i < m.nat[p].size THEN m.nat[p].data[i + 1]
             ELSE Zero(m.nat[p].tc)]

\* ------------------------------------------------------ the block layer
\* gsl_block_alloc / gsl_block_calloc (and the complex pair): null for a size
\* the allocator cannot serve, as for a vector.
native_block_alloc(bs, zok, tc, size, init) ==
    LET n == ToSizeT(size)
        free == {b \in BlockIds : bs[b].tc = "-"}
        b == Lowest(free, MaxBlocks)
    IN IF n > MaxLen \/ (n = 0 /\ ~zok) THEN [blocks |-> bs, p |-> 0]
       ELSE [blocks |-> [bs EXCEPT ![b] =
                            [tc |-> tc, size |-> n,
                             data |-> [i \in 1..n |->
                                         IF init THEN Zero(tc) ELSE Junk(tc)]]],
             p |-> b]

\* An alloc that returns whatever pointer the native function returned.
block_alloc_unchecked(bs, zok, size, typecode, init) ==
    IF typecode \notin {"d", "C"}
    THEN [blocks |-> bs, exc |-> "ValueError", p |-> 0, allocs |-> 0]
    ELSE LET a == native_block_alloc(bs, zok, typecode, size, init)
         IN [blocks |-> a.blocks, exc |-> "none", p |-> a.p, allocs |-> 1]

\* block.alloc(size, typecode, init): the typecode picks the native functions,
\* and a null pointer is raised as exception_from_result(NO_MEMORY).
block_alloc(bs, zok, size, typecode, init) ==
    IF typecode \notin {"d", "C"}
    THEN [blocks |-> bs, exc |-> "ValueError", p |-> 0, allocs |-> 0]
    ELSE LET a == native_block_alloc(bs, zok, typecode, size, init)
         IN IF a.p = 0
            THEN [blocks |-> a.blocks, exc |-> exception_from_result(NO_MEMORY),
                  p |-> 0, allocs |-> 1]
            ELSE [blocks |-> a.blocks, exc |-> "none", p |-> a.p, allocs |-> 1]

\* gsl_block_free / gsl_block_complex_free
native_block_free(bs, p) == [bs EXCEPT ![p] = NoNat]

\* A free that looks no typecode up: it calls the function of the block.
block_free_any(bs, p, typecode) ==
    [blocks |-> native_block_free(bs, p), exc |-> "none", frees |-> 1]

\* block.free(block_p, typecode): the typecode picks the native function,
\* whose pointer argument refuses a block of the other struct type
\* (ctypes.ArgumentError).
block_free(bs, p, typecode) ==
    IF typecode \notin {"d", "C"}
    THEN [blocks |-> bs, exc |-> "ValueError", frees |-> 0]
    ELSE IF bs[p].tc # typecode
    THEN [blocks |-> bs, exc |-> "ArgumentError", frees |-> 0]
    ELSE [blocks |-> native_block_free(bs, p), exc |-> "none", frees |-> 1]

\* --------------------------------------------------- the Vector wrapper
\* Vector.__len__: self._v_p.contents.size
VLen(m, w) == m.nat[m.objs[w].vp].size

\* An indexed get that leaves the check of the index to the native getter.
GetItemUnchecked(m, w, index) ==
    LET p == m.objs[w].vp
        g == native_get(Touch(m, p), p, ToSizeT(index))
    IN [m |-> g.m, exc |-> "none",
        ret |-> IF m.objs[w].tc = "C" THEN to_complex(g.val) ELSE Real(g.val)]

\* Vector.__getitem__: the wrapper's own bounds check, then the native getter.
GetItem(m, w, index) ==
    LET p == m.objs[w].vp
        t == Touch(m, p)
    IN IF ~(0 <= index /\ index < VLen(m, w))
       THEN [m |-> t, exc |-> "IndexError", ret |-> NoVal]
       ELSE LET g == native_get(t, p, index)
            IN [m |-> g.m, exc |-> "none",
                ret |-> IF m.objs[w].tc = "C" THEN to_complex(g.val)
                        ELSE Real(g.val)]

\* Vector.__setitem__: the value is converted (a c_double argument refuses a
\* complex: ctypes.ArgumentError), the index goes to the native setter as it is.
SetItem(m, w, index, val) ==
    LET tc == m.objs[w].tc
    IN IF tc = "d" /\ ~IsReal(val)
       THEN [m |-> m, exc |-> "ArgumentError"]
       ELSE [m |-> native_set(m, m.objs[w].vp, ToSizeT(index),
                              IF tc = "C" THEN from_complex(val) ELSE val.re),
             exc |-> "none"]

\* An allocation that never zeroes the block, whatever init says.
Vector_alloc_uninit(m, w, size, init) ==
    LET a == native_alloc(m, m.objs[w].tc, size, FALSE)
    IN IF a.p = 0
       THEN [m |-> a.m, exc |-> exception_from_result(NO_MEMORY)]
       ELSE [m |-> [a.m EXCEPT !.objs[w].vp = a.p], exc |-> "none"]

\* Vector._alloc: a null pointer is raised as exception_from_result(NO_MEMORY).
Vector_alloc(m, w, size, init) ==
    LET a == native_alloc(m, m.objs[w].tc, size, init)
    IN IF a.p = 0
       THEN [m |-> a.m, exc |-> exception_from_result(NO_MEMORY)]
       ELSE [m |-> [a.m EXCEPT !.objs[w].vp = a.p], exc |-> "none"]

\* finalize.track_for_finalization(owner, item, finalizer): when owner is
\* collected, finalizer(item) is called, once.
track_for_finalization(m, owner, item) ==
    [m EXCEPT !.tracked = @ \cup {[owner |-> owner, item |-> item]}]

\* The collection of the wrappers in S: each registration of an owner in S
\* fires (the native vector is freed) and is dropped.
Collect(m, S) ==
    LET fired == {t \in m.tracked : t.owner \in S}
        items == {t.item : t \in fired}
    IN [m EXCEPT !.objs = [w \in ObjIds |-> IF w \in S THEN NoObj ELSE m.objs[w]],
                 !.nat = [p \in ObjIds |->
                             IF p \in items THEN native_free(m.nat[p])
                             ELSE m.nat[p]],
                 !.refreed = @ \/ \E t \in fired :
                                 \/ m.nat[t.item].tc = "-"
                                 \/ \E u \in fired : u # t /\ u.item = t.item,
                 !.frees = @ + Cardinality(fired),
                 !.tracked = m.tracked \ fired]

SizeArg(n) == [kind |-> "size", n |-> n, vals |-> <<>>]
SeqArg(s) == [kind |-> "seq", n |-> 0, vals |-> s]
\* A number that is no integer, n + 1/2, and a generator that yields s.
FloatArg(n) == [kind |-> "float", n |-> n, vals |-> <<>>]
GenArg(s) == [kind |-> "gen", n |-> 0, vals |-> s]

\* isinstance(size_or_iterable, Iterable): true of whatever has __iter__, a
\* list and a generator alike.
IsIterable(arg) == arg.kind \in {"seq", "gen"}

RECURSIVE InitLoopRev(_, _, _, _)
\* A constructor loop that stores the values back to front.
InitLoopRev(m, w, init_vals, i) ==
    IF i >= Len(init_vals) THEN [m |-> m, exc |-> "none"]
    ELSE LET s == SetItem(m, w, i, init_vals[Len(init_vals) - i])
         IN IF s.exc # "none" THEN s
            ELSE InitLoopRev(s.m, w, init_vals, i + 1)

RECURSIVE InitLoop(_, _, _, _)
\* for i in range(size): self[i] = init_vals[i]
InitLoop(m, w, init_vals, i) ==
    IF i >= Len(init_vals) THEN [m |-> m, exc |-> "none"]
    ELSE LET s == SetItem(m, w, i, init_vals[i + 1])
         IN IF s.exc # "none" THEN s
            ELSE InitLoop(s.m, w, init_vals, i + 1)

\* An inference that takes every sequence for a complex one.
InitTypecodeComplex(arg, typecode) ==
    IF typecode # "None" THEN typecode
    ELSE IF ~IsIterable(arg) THEN "d"
    ELSE "C"

\* The typecode Vector.__init__ settles on.
InitTypecode(arg, typecode) ==
    IF typecode # "None" THEN typecode
    ELSE IF ~IsIterable(arg) THEN "d"
    ELSE IF \A i \in 1..Len(arg.vals) : IsReal(arg.vals[i]) THEN "d"
    ELSE "C"

\* Vector.__init__(size_or_iterable, typecode=...): ref is the object under
\* construction, exc what the constructor raised.  An iterable is read into
\* a list; anything else is the size, which the c_size_t argument of the
\* allocator refuses when it is no integer (ctypes.ArgumentError).
VectorInit(m, arg, typecode) ==
    LET isIter == IsIterable(arg)
        size == IF isIter THEN Len(arg.vals) ELSE arg.n
        tc == InitTypecode(arg, typecode)
        free == {v \in ObjIds : m.objs[v].tc = "-"}
        w == Lowest(free, MaxObjs)
        Tracked(l) ==
            IF l.exc # "none" THEN [m |-> l.m, exc |-> l.exc, ref |-> w]
            ELSE [m |-> track_for_finalization(l.m, w, l.m.objs[w].vp),
                  exc |-> "none", ref |-> w]
        Allocated(a) ==
            IF a.exc # "none" THEN [m |-> a.m, exc |-> a.exc, ref |-> w]
            ELSE Tracked(IF isIter THEN InitLoop(a.m, w, arg.vals, 0) ELSE a)
    IN IF free = {}
       THEN [m |-> [m EXCEPT !.full = TRUE], exc |-> "MemoryError", ref |-> 0]
       ELSE IF tc \notin {"d", "C"}
       THEN [m |-> [m EXCEPT !.objs[w] = [tc |-> "?", vp |-> 0]],
             exc |-> "ValueError", ref |-> w]
       ELSE IF arg.kind = "float"
       THEN [m |-> [m EXCEPT !.objs[w] = [tc |-> tc, vp |-> 0]],
             exc |-> "ArgumentError", ref |-> w]
       ELSE Allocated(Vector_alloc([m EXCEPT !.objs[w] = [tc |-> tc, vp |-> 0]],
                                   w, size, ~isIter))

\* ------------------------------------------- native vector operations
\* A sum that drops the imaginary part of its second operand.
ElemAddReal(tc, u, v) == IF tc = "C" THEN <<u[1] + v[1], u[2]>> ELSE u + v

\* A complex product that conjugates its second operand (gsl_blas_zdotc).
ElemMulConj(tc, u, v) ==
    IF tc = "C" THEN <<u[1] * v[1] + u[2] * v[2], u[2] * v[1] - u[1] * v[2]>>
    ELSE u * v

\* The sum of two native elements of one type.
ElemAdd(tc, u, v) == IF tc = "C" THEN <<u[1] + v[1], u[2] + v[2]>> ELSE u + v

\* The product of two native elements of one type; the complex product is
\* not conjugated (gsl_blas_zdotu).
ElemMul(tc, u, v) ==
    IF tc = "C" THEN <<u[1] * v[1] - u[2] * v[2], u[1] * v[2] + u[2] * v[1]>>
    ELSE u * v

\* gsl_vector_memcpy(dest, src)
native_memcpy(m, dest, src) ==
    LET t == Touch(Touch(m, dest), src)
        status == IF t.nat[src].size # t.nat[dest].size THEN GSL_EBADLEN ELSE 0
    IN [m |-> IF status = 0
              THEN [t EXCEPT !.nat[dest].data = t.nat[src].data,
                             !.writes = @ \cup {dest},
                             !.st = Append(@, status)]
              ELSE [t EXCEPT !.st = Append(@, status), !.reports = @ + 1],
        status |-> status]

\* An addition that adds what the two operands have in common before it
\* reports that their sizes differ.
native_add_partial(m, a, b) ==
    LET t == Touch(Touch(m, a), b)
        status == IF t.nat[a].size # t.nat[b].size THEN GSL_EBADLEN ELSE 0
    IN [m |-> [t EXCEPT !.nat[a].data =
                         [i \in 1..t.nat[a].size |->
                             IF i <= t.nat[b].size
                             THEN ElemAdd(t.nat[a].tc, t.nat[a].data[i],
                                          t.nat[b].data[i])
                             ELSE t.nat[a].data[i]],
                        !.writes = @ \cup {a},
                        !.st = Append(@, status),
                        !.reports = IF status = 0 THEN @ ELSE @ + 1],
        status |-> status]

\* gsl_vector_add(a, b): a[i] += b[i]
native_add(m, a, b) ==
    LET t == Touch(Touch(m, a), b)
        status == IF t.nat[a].size # t.nat[b].size THEN GSL_EBADLEN ELSE 0
    IN [m |-> IF status = 0
              THEN [t EXCEPT !.nat[a].data =
                         [i \in 1..t.nat[a].size |->
                             ElemAdd(t.nat[a].tc, t.nat[a].data[i], t.nat[b].data[i])],
                             !.writes = @ \cup {a},
                             !.st = Append(@, status)]
              ELSE [t EXCEPT !.st = Append(@, status), !.reports = @ + 1],
        status |-> status]

RECURSIVE DotSum(_, _, _, _)
\* The sum of X[i] * Y[i] over the first n elements.
DotSum(tc, X, Y, n) ==
    IF n = 0 THEN Zero(tc)
    ELSE ElemAdd(tc, DotSum(tc, X, Y, n - 1), ElemMul(tc, X[n], Y[n]))

\* A product that takes every second factor from the head of Y.
native_dot_head(m, X, Y) ==
    LET t == Touch(Touch(m, X), Y)
        status == IF t.nat[X].size # t.nat[Y].size THEN GSL_EBADLEN ELSE 0
    IN [m |-> [t EXCEPT !.st = Append(@, status),
                        !.reports = IF status = 0 THEN @ ELSE @ + 1],
        status |-> status,
        result |-> IF status = 0
                   THEN DotSum(t.nat[X].tc, t.nat[X].data,
                               [i \in 1..t.nat[X].size |-> t.nat[Y].data[1]],
                               t.nat[X].size)
                   ELSE Zero(t.nat[X].tc)]

\* gsl_blas_ddot / gsl_blas_zdotu (X, Y, result)
native_dot(m, X, Y) ==
    LET t == Touch(Touch(m, X), Y)
        status == IF t.nat[X].size # t.nat[Y].size THEN GSL_EBADLEN ELSE 0
    IN [m |-> [t EXCEPT !.st = Append(@, status),
                        !.reports = IF status = 0 THEN @ ELSE @ + 1],
        status |-> status,
        result |-> IF status = 0
                   THEN DotSum(t.nat[X].tc, t.nat[X].data, t.nat[Y].data,
                               t.nat[X].size)
                   ELSE Zero(t.nat[X].tc)]

RECURSIVE SumSqReal(_, _, _)
\* A sum of squares that leaves the imaginary parts out.
SumSqReal(tc, X, n) ==
    IF n = 0 THEN 0
    ELSE SumSqReal(tc, X, n - 1)
         + (IF tc = "C" THEN X[n][1] * X[n][1] ELSE X[n] * X[n])

RECURSIVE SumSq(_, _, _)
\* The sum of |X[i]|^2 over the first n elements.
SumSq(tc, X, n) ==
    IF n = 0 THEN 0
    ELSE SumSq(tc, X, n - 1)
         + (IF tc = "C" THEN X[n][1] * X[n][1] + X[n][2] * X[n][2]
            ELSE X[n] * X[n])

\* gsl_blas_dnrm2 / gsl_blas_dznrm2 (X): the Euclidean norm, a double; the
\* square root is kept as the number it is the root of.
native_nrm2(m, X) ==
    [m |-> Touch(m, X),
     result |-> [k |-> "sqrt",
                 re |-> SumSq(m.nat[X].tc, m.nat[X].data, m.nat[X].size),
                 im |-> 0]]

\* ------------------------------------------------- the Vector operations
RECURSIVE CoerceLoop(_, _, _, _)
\* for i, val in enumerate(self): coerced[i] = val, by the sequence protocol:
\* self[0], self[1], ... until an IndexError.
CoerceLoop(m, self, coerced, i) ==
    LET g == GetItem(m, self, i)
    IN IF g.exc = "IndexError" THEN g.m
       ELSE CoerceLoop(SetItem(g.m, coerced, i, g.ret).m, self, coerced, i + 1)

RECURSIVE IterateAll(_, _, _, _)
\* An iteration that stops for nothing but the end of the address space.
IterateAll(m, self, i, items) ==
    IF i >= SizeMax THEN [m |-> m, items |-> items, done |-> FALSE]
    ELSE LET g == GetItemUnchecked(m, self, i)
         IN IterateAll(g.m, self, i + 1, Append(items, g.ret))

RECURSIVE Iterate(_, _, _, _)
\* iter(self), which Vector inherits from Sequence: self[0], self[1], ...
\* are yielded until one raises IndexError.  done: the iteration ended; an
\* iteration that reaches the end of the address space never does.
Iterate(m, self, i, items) ==
    IF i >= SizeMax THEN [m |-> m, items |-> items, done |-> FALSE]
    ELSE LET g == GetItem(m, self, i)
         IN IF g.exc = "IndexError"
            THEN [m |-> g.m, items |-> items, done |-> TRUE]
            ELSE Iterate(g.m, self, i + 1, Append(items, g.ret))

\* Vector._as_typecode
AsTypecode(m, self, typecode) ==
    LET Filled(v) ==
            IF v.exc # "none" THEN [m |-> v.m, exc |-> v.exc, ref |-> 0]
            ELSE [m |-> CoerceLoop(v.m, self, v.ref, 0), exc |-> "none",
                  ref |-> v.ref]
    IN IF typecode = "C" /\ m.objs[self].tc = "d"
       THEN Filled(VectorInit(Touch(m, m.objs[self].vp),
                              SizeArg(VLen(m, self)), typecode))
       ELSE [m |-> m, exc |-> "none", ref |-> self]

\* A copy that is the vector itself.
CopyAlias(m, self) == [m |-> m, exc |-> "none", ref |-> self]

\* Vector.__copy__
Copy(m, self) ==
    LET Checked(v, c) ==
            IF c.status # 0
            THEN [m |-> c.m, exc |-> exception_from_result(c.status), ref |-> 0]
            ELSE [m |-> c.m, exc |-> "none", ref |-> v.ref]
        Copied(v) ==
            IF v.exc # "none" THEN [m |-> v.m, exc |-> v.exc, ref |-> 0]
            ELSE Checked(v, native_memcpy(v.m, v.m.objs[v.ref].vp,
                                          v.m.objs[self].vp))
    IN Copied(VectorInit(Touch(m, m.objs[self].vp), SizeArg(VLen(m, self)),
                         m.objs[self].tc))

\* Vector.__abs__
Abs(m, self) ==
    LET r == native_nrm2(m, m.objs[self].vp)
    IN [m |-> r.m, exc |-> "none", ret |-> r.result]

\* errcode = result._add_fn(result, other), then the check of errcode.  ctypes
\* refuses an argument of the other struct type (ArgumentError) before the call.
AddCall(m, result, other) ==
    LET Checked(r) ==
            IF r.status # 0
            THEN [m |-> r.m, exc |-> exception_from_result(r.status), ref |-> 0]
            ELSE [m |-> r.m, exc |-> "none", ref |-> result]
    IN IF m.objs[result].tc # m.objs[other].tc
       THEN [m |-> m, exc |-> "ArgumentError", ref |-> 0]
       ELSE Checked(native_add(m, m.objs[result].vp, m.objs[other].vp))

\* result, other = (result._as_typecode(other._typecode),
\*                  other._as_typecode(result._typecode))
CoercePair(m, self, other) ==
    LET Second(r1, r2) ==
            [m |-> r2.m, exc |-> r2.exc, self |-> r1.ref, other |-> r2.ref]
        First(r1) ==
            IF r1.exc # "none"
            THEN [m |-> r1.m, exc |-> r1.exc, self |-> 0, other |-> 0]
            ELSE Second(r1, AsTypecode(r1.m, other, m.objs[self].tc))
    IN First(AsTypecode(m, self, m.objs[other].tc))

\* An addition that adds into the vector itself, with no copy.
AddNoCopy(m, self, other) == AddCall(m, self, other)

\* Vector.__add__
Add(m, self, other) ==
    LET Coerced(p) ==
            IF p.exc # "none" THEN [m |-> p.m, exc |-> p.exc, ref |-> 0]
            ELSE AddCall(p.m, p.self, p.other)
        Tried(c, try) ==
            IF try.exc # "ArgumentError" THEN try
            ELSE Coerced(CoercePair(c.m, c.ref, other))
        Copied(c) ==
            IF c.exc # "none" THEN c
            ELSE Tried(c, AddCall(c.m, c.ref, other))
    IN Copied(Copy(m, self))

\* An in-place addition that turns a real vector into a complex one where it
\* stands.
IAddRetyped(m, self, other) ==
    LET p == m.objs[self].vp
    IN IF m.objs[self].tc = "d" /\ m.objs[other].tc = "C"
       THEN AddCall([m EXCEPT !.objs[self].tc = "C", !.nat[p].tc = "C",
                              !.nat[p].data = [i \in 1..m.nat[p].size |->
                                                  <<m.nat[p].data[i], 0>>]],
                    self, other)
       ELSE AddCall(m, self, other)

\* Vector.__iadd__
IAdd(m, self, other) ==
    LET Coerced(p) ==
            IF p.exc # "none" THEN [m |-> p.m, exc |-> p.exc, ref |-> 0]
            ELSE AddCall(p.m, p.self, p.other)
        Copied(c) ==
            IF c.exc # "none" THEN c
            ELSE Coerced(CoercePair(c.m, c.ref, other))
        Tried(try) ==
            IF try.exc # "ArgumentError" THEN try
            ELSE Copied(Copy(m, self))
    IN Tried(AddCall(m, self, other))

\* Vector.dot
Dot(m, self, other) ==
    LET Checked(p, r) ==
            IF r.status # 0
            THEN [m |-> r.m, exc |-> exception_from_result(r.status), ret |-> NoVal]
            ELSE [m |-> r.m, exc |-> "none",
                  ret |-> IF p.m.objs[p.self].tc = "C" THEN to_complex(r.result)
                          ELSE Real(r.result)]
        Called(p) ==
            IF p.exc # "none" THEN [m |-> p.m, exc |-> p.exc, ret |-> NoVal]
            ELSE IF p.m.objs[p.self].tc # p.m.objs[p.other].tc
            THEN [m |-> p.m, exc |-> "ArgumentError", ret |-> NoVal]
            ELSE Checked(p, native_dot(p.m, p.m.objs[p.self].vp,
                                       p.m.objs[p.other].vp))
    IN Called(IF m.objs[self].tc # m.objs[other].tc
              THEN CoercePair(m, self, other)
              ELSE [m |-> m, exc |-> "none", self |-> self, other |-> other])

\* Vector.__matmul__
MatMul(m, self, other) == Dot(m, self, other)

\* ------------------------------------------- the "_e" special functions
\* The evaluators gsl.sf exposes in an "_e" form.
SfFns == {"airy.Ai_e", "airy.Bi_e", "bessel.J0_e", "bessel.J1_e", "bessel.Jn_e"}

\* The native function an evaluator calls: the Airy evaluators have a scaled
\* variant, the Bessel evaluators take no such argument.
SfNative(fn, scaled) ==
    CASE fn = "airy.Ai_e" -> IF scaled THEN "gsl_sf_airy_Ai_scaled_e"
                             ELSE "gsl_sf_airy_Ai_e"
      [] fn = "airy.Bi_e" -> IF scaled THEN "gsl_sf_airy_Bi_scaled_e"
                             ELSE "gsl_sf_airy_Bi_e"
      [] fn = "bessel.J0_e" -> "gsl_sf_bessel_J0_e"
      [] fn = "bessel.J1_e" -> "gsl_sf_bessel_J1_e"
      [] fn = "bessel.Jn_e" -> "gsl_sf_bessel_Jn_e"

\* make_sf_result_p(): pointer(sf_result(0.0, 0.0))
make_sf_result_p == [val |-> 0, err |-> 0]

\* An errcheck that takes only a positive status for a failure.
sf_error_handler_positive(result, arguments) ==
    IF result > 0
    THEN [exc |-> exception_from_result(result), ret |-> make_sf_result_p]
    ELSE [exc |-> "none", ret |-> arguments]

\* sf_error_handler(result, func, arguments), the errcheck of every "_e"
\* function: arguments[-1].contents unless the status is non-zero.
sf_error_handler(result, arguments) ==
    IF result # 0
    THEN [exc |-> exception_from_result(result), ret |-> make_sf_result_p]
    ELSE [exc |-> "none", ret |-> arguments]

\* An "_e" evaluator: the native call fills the result struct (out.val,
\* out.err) and returns out.status; the struct is unpacked into a pair.
SfEval(out) ==
    LET result_p == [make_sf_result_p EXCEPT !.val = out.val, !.err = out.err]
        result == sf_error_handler(out.status, result_p)
    IN IF result.exc # "none" THEN [exc |-> result.exc, ret |-> <<>>]
       ELSE [exc |-> "none", ret |-> <<result.ret.val, result.ret.err>>]

\* ------------------------------------------------- the error handler
\* The handler gsl_set_error_handler_off() installs: it ignores every report.
no_error_handler == 0

\* What a program passes to set_error_handler: None, a Python function of
\* four arguments, an ErrorHandler instance holding the native pointer p (what
\* an earlier call returned), or an object that is no function.
FnNone == [kind |-> "None", f |-> "-", p |-> 0]
PyFn(f) == [kind |-> "function", f |-> f, p |-> 0]
FnPtr(p) == [kind |-> "ErrorHandler", f |-> "-", p |-> p]
NotFn == [kind |-> "int", f |-> "-", p |-> 0]

\* isinstance(fn, Callable): true of whatever has __call__, a Python function
\* and a ctypes function pointer alike.
IsCallable(fn) == fn.kind \in {"function", "ErrorHandler"}

\* A set_error_handler that installs a callback without keeping it.
set_error_handler_unkept(h, hs, fn) ==
    IF fn.kind = "None"
    THEN [handler |-> no_error_handler, handlers |-> hs, exc |-> "none",
          ret |-> FnPtr(h)]
    ELSE IF IsCallable(fn)
    THEN [handler |-> Len(hs) + 1, handlers |-> hs, exc |-> "none",
          ret |-> FnPtr(h)]
    ELSE [handler |-> h, handlers |-> hs, exc |-> "ArgumentError",
          ret |-> FnNone]

\* errors.set_error_handler(fn), with the native handler h installed and hs
\* in _handlers.  None turns the native handler off.  A callable is wrapped
\* in a new ErrorHandler callback, whose address is its position in
\* _handlers, and the callback is installed.  Anything else is handed to the
\* native function as it is, whose ErrorHandler argument refuses it
\* (ctypes.ArgumentError).  The native function returns the handler it
\* replaced.
set_error_handler(h, hs, fn) ==
    IF fn.kind = "None"
    THEN [handler |-> no_error_handler, handlers |-> hs, exc |-> "none",
          ret |-> FnPtr(h)]
    ELSE IF IsCallable(fn)
    THEN [handler |-> Len(hs) + 1, handlers |-> Append(hs, fn), exc |-> "none",
          ret |-> FnPtr(h)]
    ELSE [handler |-> h, handlers |-> hs, exc |-> "ArgumentError",
          ret |-> FnNone]

RECURSIVE Handles(_, _)
\* Who ends up with a report the library makes to the handler h: nobody under
\* no_error_handler; the Python function a callback wraps; what a callback
\* around a function pointer calls on to.  A callback that was collected is
\* a dangling pointer.
Handles(h, hs) ==
    IF h = no_error_handler THEN "-"
    ELSE IF h \notin DOMAIN hs THEN "dangling"
    ELSE IF hs[h].kind = "function" THEN hs[h].f
    ELSE Handles(hs[h].p, hs)

\* ------------------------------------- the direct-form special functions
SfDirectFns == {"airy.Ai", "airy.Bi", "bessel.J0", "bessel.J1", "bessel.Jn"}

\* The native function a direct form calls.
SfDirectNative(fn, scaled) ==
    CASE fn = "airy.Ai" -> IF scaled THEN "gsl_sf_airy_Ai_scaled"
                           ELSE "gsl_sf_airy_Ai"
      [] fn = "airy.Bi" -> IF scaled THEN "gsl_sf_airy_Bi_scaled"
                           ELSE "gsl_sf_airy_Bi"
      [] fn = "bessel.J0" -> "gsl_sf_bessel_J0"
      [] fn = "bessel.J1" -> "gsl_sf_bessel_J1"
      [] fn = "bessel.Jn" -> "gsl_sf_bessel_Jn"

\* A direct form returns what the native function returns, a double.  The
\* native function has no status to return: a failure (out.status) goes to
\* the installed handler h, and what a Python handler raises inside the
\* callback never reaches the caller.
SfDirect(h, hs, out) ==
    [exc |-> "none", ret |-> Real(out.val),
     called |-> IF out.status = 0 THEN "-" ELSE Handles(h, hs)]

\* ------------------------------------------------------ the Airy module
\* Mode (IntEnum): default and double are 0, single is 1, approx is 2.
Mode == [default |-> 0, double |-> 0, single |-> 1, approx |-> 2]

\* The precision argument of a call: given, or left out.
GivenPrec(p) == [given |-> TRUE, p |-> p]
NoPrec == [given |-> FALSE, p |-> 0]

\* The functions airy.py defines.
AiryModule == {"Ai", "Ai_e", "Bi", "Bi_e"}

\* A selection that always takes the unscaled native function.
AiryNativeUnscaled(name, scaled) ==
    CASE name = "Ai" -> "gsl_sf_airy_Ai"
      [] name = "Ai_e" -> "gsl_sf_airy_Ai_e"
      [] name = "Bi" -> "gsl_sf_airy_Bi"
      [] name = "Bi_e" -> "gsl_sf_airy_Bi_e"

\* The native function an Airy function calls: (scaled variant if scaled else
\* the plain one), one branch of a conditional expression.
AiryNative(name, scaled) ==
    CASE name = "Ai" -> IF scaled THEN "gsl_sf_airy_Ai_scaled"
                        ELSE "gsl_sf_airy_Ai"
      [] name = "Ai_e" -> IF scaled THEN "gsl_sf_airy_Ai_scaled_e"
                          ELSE "gsl_sf_airy_Ai_e"
      [] name = "Bi" -> IF scaled THEN "gsl_sf_airy_Bi_scaled"
                        ELSE "gsl_sf_airy_Bi"
      [] name = "Bi_e" -> IF scaled THEN "gsl_sf_airy_Bi_scaled_e"
                          ELSE "gsl_sf_airy_Bi_e"

\* The binding of the parameter precision=Mode.default.
AiryPrecision(precision) ==
    IF precision.given THEN precision.p ELSE Mode.default

\* airy.<name>(x, [precision,] scaled=scaled), the native call ending as out
\* says: the attribute lookup, then the one native call with (x, precision),
\* then the result as the direct form or the "_e" form hands it back.
\* calls: the native calls made, each with the gsl_mode_t it received.
AiryCall(h, hs, name, precision, scaled, out) ==
    LET call == [native |-> AiryNative(name, scaled),
                 mode |-> AiryPrecision(precision)]
        Direct(d) ==
            [exc |-> d.exc, calls |-> <<call>>, ret |-> d.ret, pair |-> <<>>]
        Pair(e) ==
            [exc |-> e.exc, calls |-> <<call>>, ret |-> NoVal, pair |-> e.ret]
    IN IF name \notin AiryModule
       THEN [exc |-> "AttributeError", calls |-> <<>>, ret |-> NoVal,
             pair |-> <<>>]
       ELSE IF name \in {"Ai", "Bi"} THEN Direct(SfDirect(h, hs, out))
       ELSE Pair(SfEval(out))

\* ------------------------------------------------ the client's program
\* The elements of a vector as the client reads them, v[0], v[1], ...
Elems(m, w) == [i \in 1..VLen(m, w) |-> GetItem(m, w, i - 1).ret]

\* What the client sees of a vector: its typecode and its elements.
NoView == [tc |-> "-", elems |-> <<>>]
View(m, w) ==
    IF w = 0 \/ m.objs[w].vp = 0 THEN NoView
    ELSE [tc |-> m.objs[w].tc, elems |-> Elems(m, w)]

Typecodes == {"None", "d", "C", "x"}

\* The arguments the client constructs a vector from, one name at a time.
ConstructArgs ==
    {SizeArg(n) : n \in -1..(MaxLen + 1)}
    \cup {SeqArg(s) : s \in UNION {[1..k -> HostVals] : k \in 0..MaxLen}}

Indices == -1..MaxLen

\* The vectors the client builds to do arithmetic on: an empty one, for each
\* of the two longest lengths a real and a complex one, and a sequence a real
\* vector cannot hold.
RampLens == (MaxLen - 1)..MaxLen
RealRamp(k) == [i \in 1..k |-> Real(i % 2)]
CxRamp(k) == [i \in 1..k |-> Cx(i % 2, 1)]
ArithCtors ==
    {[arg |-> SeqArg(RealRamp(k)), tc |-> "None"] : k \in {0} \cup RampLens}
    \cup {[arg |-> SeqArg(CxRamp(k)), tc |-> "None"] : k \in RampLens}
    \cup {[arg |-> SeqArg(RealRamp(MaxLen - 1) \o <<Cx(0, 1)>>), tc |-> "d"]}

\* The numbers a program converts: the complex numbers with small parts, and
\* the reals, which have a real and an imaginary part as well.
Parts == (0 - MaxPart)..MaxPart
HostNumbers == {Cx(x, y) : x \in Parts, y \in Parts} \cup {Real(x) : x \in Parts}

\* The gsl_complex values, and what a program compares one to: another
\* gsl_complex, a Python complex, a float, a tuple of two floats.
GslComplexes == {<<x, y>> : x \in Parts, y \in Parts}
Others ==
    {Obj(cls, g) : cls \in {"gsl_complex", "complex", "tuple"}, g \in GslComplexes}
    \cup {Obj("float", <<x, 0>>) : x \in Parts}

\* What a native "_e" call can do: a status (GSL_SUCCESS, GSL_FAILURE,
\* GSL_CONTINUE, GSL_EDOM, GSL_EOVRFLW, a code outside the table) and the
\* struct it leaves.
NoOut == [status |-> 0, val |-> 0, err |-> 0]
SfStatuses == {-2, -1, 0, 1, 16, 33}
SfOuts ==
    {[status |-> 0, val |-> 1, err |-> 0], [status |-> 0, val |-> 2, err |-> 1]}
    \cup {[status |-> c, val |-> 1, err |-> 0] : c \in SfStatuses \ {0}}

\* The counts a program allocates blocks of: one the allocator serves, zero,
\* a negative one and one too large.
BlockSizes == {-1, 0, MaxLen, MaxLen + 1}

\* The vectors of the program that allocates blocks.
BlockCtors ==
    {SizeArg(n) : n \in -1..(MaxLen + 1)} \cup {SeqArg(RealRamp(MaxLen))}

\* The vectors of the program that assigns elements, copies and adds: of the
\* two longest lengths, real and complex, all zero.
MutateCtors ==
    {[arg |-> SizeArg(k), tc |-> t] : k \in RampLens, t \in {"d", "C"}}

\* The indices that program assigns to: the first, and one out of range.
MutateIndices == {0, MaxLen}

\* The status codes a program translates into exceptions.
Codes == (1 - CodeMargin)..(32 + CodeMargin)

\* The reasons a report comes with.
Reasons == {"input domain error", "overflow"}

\* The function pointers a program can hold: what set_error_handler returned
\* so far, which is each handler that was replaced, and what the call just
\* made returned.
Returned ==
    {p \in 0..Len(handlers) : p # handler}
    \cup (IF last.op = "set_error_handler" /\ last.exc = "none"
          THEN {last.hret.p} ELSE {})

\* What a program passes to set_error_handler.
HandlerArgs ==
    {FnNone, PyFn("exception_on_error"), NotFn}
    \cup {FnPtr(p) : p \in 0..MaxHandlers}

\* The calls of the direct forms: only the Airy ones take scaled.
SfDirectCalls ==
    {[fn |-> f, scaled |-> b] : f \in {"airy.Ai", "airy.Bi"}, b \in BOOLEAN}
    \cup {[fn |-> f, scaled |-> FALSE] :
              f \in SfDirectFns \ {"airy.Ai", "airy.Bi"}}

\* What a program that miscalls the constructor passes: every negative count
\* down to below the width of a size and the counts served, numbers that are
\* no integers, generators, and lists.
InitArgs ==
    {SizeArg(n) : n \in (0 - SizeMax - 1)..MaxLen}
    \cup {FloatArg(n) : n \in {-1, 0, MaxLen}}
    \cup {GenArg(s) : s \in {<<>>, RealRamp(MaxLen), CxRamp(MaxLen)}}
    \cup {SeqArg(RealRamp(MaxLen))}

\* The names a program looks up in the Airy module: what the module defines,
\* and the derivative evaluators.
AiryNames == AiryModule \cup {"Ai_deriv", "Ai_deriv_e"}

\* The precisions a program passes: none, and each value of Mode.
Precisions ==
    {NoPrec} \cup {GivenPrec(p) : p \in {Mode.double, Mode.single, Mode.approx}}

\* The calls of the evaluators: only the Airy ones take scaled.
SfCalls ==
    {[fn |-> f, scaled |-> b] : f \in {"airy.Ai_e", "airy.Bi_e"}, b \in BOOLEAN}
    \cup {[fn |-> f, scaled |-> FALSE] : f \in SfFns \ {"airy.Ai_e", "airy.Bi_e"}}

\* The vectors of the program that watches status codes.
StatusCtors == {[arg |-> SeqArg(RealRamp(k)), tc |-> "None"] : k \in RampLens}

LastInit ==
    [op |-> "start", x |-> "-", y |-> "-", xr |-> 0, yr |-> 0, idx |-> 0,
     val |-> NoVal, arg |-> SizeArg(0), tcarg |-> "None", fn |-> "-",
     out |-> NoOut, pair |-> <<>>,
     exc |-> "none", ref |-> 0, same |-> FALSE, ret |-> NoVal,
     prex |-> NoView, prey |-> NoView, res |-> NoView,
     gets |-> 0, sets |-> 0, writes |-> {}, nulls |-> 0, reports |-> 0,
     allocs |-> 0, frees |-> 0,
     uaf |-> FALSE, st |-> <<>>,
     code |-> 0, hfn |-> FnNone, hret |-> FnNone, hwas |-> no_error_handler,
     init |-> FALSE, bp |-> 0, preb |-> NoNat,
     g |-> <<0, 0>>, other |-> NoOther, eq |-> FALSE,
     cls |-> "-", called |-> "-",
     name |-> "-", prec |-> NoPrec, scaled |-> FALSE, calls |-> <<>>,
     items |-> <<>>, done |-> FALSE,
     postx |-> NoView, posty |-> NoView, text |-> "-"]

\* Every component of every element of w is within the cap.
InRange(m, w) ==
    \A i \in 1..VLen(m, w) :
        LET e == GetItem(m, w, i - 1).ret
        IN e.re \in -MaxAbs..MaxAbs /\ e.im \in -MaxAbs..MaxAbs

\* The allocated native vectors no wrapper points to: nothing can free them.
Orphans(m) ==
    {p \in ObjIds : m.nat[p].tc # "-"
                     /\ \A w \in ObjIds : m.objs[w].tc = "-" \/ m.objs[w].vp # p}

\* Object identities are addresses, which carry no meaning from one operation
\* to the next: at the end of an operation the surviving wrappers are renamed
\* to the position of the first name bound to them, and each native vector
\* to the slot of its wrapper.
CanonId(newrefs, w) ==
    IF w = 0 \/ \A i \in 1..Len(NameSeq) : newrefs[NameSeq[i]] # w THEN 0
    ELSE CHOOSE i \in 1..Len(NameSeq) :
             /\ newrefs[NameSeq[i]] = w
             /\ \A j \in 1..(i - 1) : newrefs[NameSeq[j]] # w

\* The end of an operation: the names are rebound, every wrapper no name
\* refers to is collected, and the outcome is recorded.  A native vector
\* that lost its wrapper is never reached again: the model records the loss
\* and forgets the storage.  postx, posty: the objects the operation was
\* called on as it left them, before any of them is collected.
Renamed(m, c, newrefs, l) ==
    LET live == {w \in ObjIds : c.objs[w].tc # "-"}
        cid == [w \in ObjIds |-> CanonId(newrefs, w)]
        nid == [p \in ObjIds |->
                   IF \E w \in live : c.objs[w].vp = p
                   THEN cid[CHOOSE w \in live : c.objs[w].vp = p]
                   ELSE 0]
        at == [i \in ObjIds |-> IF \E w \in live : cid[w] = i
                                THEN CHOOSE w \in live : cid[w] = i
                                ELSE 0]
    IN [ok |-> ~m.full,
        objs |-> [i \in ObjIds |->
                     IF at[i] = 0 THEN NoObj
                     ELSE [tc |-> c.objs[at[i]].tc,
                           vp |-> IF c.objs[at[i]].vp = 0 THEN 0
                                  ELSE nid[c.objs[at[i]].vp]]],
        nat |-> [i \in ObjIds |->
                    IF at[i] = 0 \/ c.objs[IF at[i] = 0 THEN 1 ELSE at[i]].vp = 0
                    THEN NoNat
                    ELSE c.nat[c.objs[at[i]].vp]],
        tracked |-> {[owner |-> cid[t.owner], item |-> nid[t.item]] :
                        t \in c.tracked},
        refs |-> [n \in Names |-> IF newrefs[n] = 0 THEN 0 ELSE cid[newrefs[n]]],
        faults |-> (IF Orphans(c) # {} THEN {"leak"} ELSE {})
                   \cup (IF c.refreed THEN {"double free"} ELSE {})
                   \cup (IF c.uaf THEN {"use after free"} ELSE {}),
        last |-> [l EXCEPT !.gets = m.gets, !.sets = m.sets,
                           !.writes = {nid[p] : p \in m.writes},
                           !.nulls = m.nulls, !.reports = m.reports,
                           !.allocs = c.allocs, !.frees = c.frees,
                           !.uaf = m.uaf, !.st = m.st,
                           !.postx = View(m, l.xr), !.posty = View(m, l.yr),
                           !.ref = IF l.ref = 0 THEN 0 ELSE cid[l.ref],
                           !.same = (l.ref # 0 /\ l.ref = l.xr)]]

\* The wrappers no name refers to any more.
Dead(m, newrefs) ==
    {w \in ObjIds : m.objs[w].tc # "-" /\ \A n \in Names : newrefs[n] # w}

Committed(m, newrefs, l) ==
    Renamed(m, Collect(m, Dead(m, newrefs)), newrefs, l)

Commit(m, newrefs, l) ==
    \E s \in {Committed(m, newrefs, l)} :
        /\ s.ok
        /\ objs' = s.objs
        /\ nat' = s.nat
        /\ tracked' = s.tracked
        /\ refs' = s.refs
        /\ faults' = s.faults
        /\ UNCHANGED <<zeroOk, handler, handlers, blocks>>
        /\ last' = s.last

Start == Machine(objs, nat, tracked)

\* What an operation on x (and y) starts from.
Call(op, x, y) ==
    [LastInit EXCEPT !.op = op, !.x = x, !.y = y,
                     !.xr = IF x \in Names THEN refs[x] ELSE 0,
                     !.yr = IF y \in Names THEN refs[y] ELSE 0,
                     !.prex = IF x \in Names THEN View(Start, refs[x]) ELSE NoView,
                     !.prey = IF y \in Names THEN View(Start, refs[y]) ELSE NoView]

\* The vector an operation returned, if it returned one.
Res(r) == IF r.exc = "none" THEN View(r.m, r.ref) ELSE NoView

\* x = Vector(arg, typecode=typecode)
Construct(x, arg, typecode) ==
    \E r \in {VectorInit(Start, arg, typecode)} :
       Commit(r.m,
              IF r.exc = "none" THEN [refs EXCEPT ![x] = r.ref] ELSE refs,
              [LastInit EXCEPT !.op = "Vector", !.x = x, !.arg = arg,
                               !.tcarg = typecode, !.exc = r.exc,
                               !.ref = r.ref, !.res = Res(r)])

\* del x
Release(x) ==
    /\ refs[x] # 0
    /\ Commit(Start, [refs EXCEPT ![x] = 0], Call("del", x, "-"))

\* x[idx]
ActGetItem(x, idx) ==
    /\ refs[x] # 0
    /\ \E r \in {GetItem(Start, refs[x], idx)} :
          Commit(r.m, refs,
                 [Call("getitem", x, "-") EXCEPT !.idx = idx, !.exc = r.exc,
                                                 !.ret = r.ret])

\* x[idx] = val
ActSetItem(x, idx, val) ==
    /\ refs[x] # 0
    /\ \E r \in {SetItem(Start, refs[x], idx, val)} :
          Commit(r.m, refs,
                 [Call("setitem", x, "-") EXCEPT !.idx = idx, !.val = val,
                                                 !.exc = r.exc])

\* z = copy.copy(x)
ActCopy(x, z) ==
    /\ refs[x] # 0
    /\ \E r \in {Copy(Start, refs[x])} :
          Commit(r.m,
                 IF r.exc = "none" THEN [refs EXCEPT ![z] = r.ref] ELSE refs,
                 [Call("copy", x, "-") EXCEPT !.exc = r.exc, !.ref = r.ref,
                                              !.res = Res(r)])

\* x + y: the sum is read and dropped.
ActAdd(x, y) ==
    /\ refs[x] # 0 /\ refs[y] # 0
    /\ \E r \in {Add(Start, refs[x], refs[y])} :
          Commit(r.m, refs,
                 [Call("add", x, y) EXCEPT !.exc = r.exc, !.ref = r.ref,
                                           !.res = Res(r)])

\* x += y
ActIAdd(x, y) ==
    /\ refs[x] # 0 /\ refs[y] # 0
    /\ \E r \in {IAdd(Start, refs[x], refs[y])} :
          /\ r.exc = "none" => InRange(r.m, r.ref)
          /\ Commit(r.m,
                    IF r.exc = "none" THEN [refs EXCEPT ![x] = r.ref] ELSE refs,
                    [Call("iadd", x, y) EXCEPT !.exc = r.exc, !.ref = r.ref,
                                               !.res = Res(r)])

\* x.dot(y)
ActDot(x, y) ==
    /\ refs[x] # 0 /\ refs[y] # 0
    /\ \E r \in {Dot(Start, refs[x], refs[y])} :
          Commit(r.m, refs,
                 [Call("dot", x, y) EXCEPT !.exc = r.exc, !.ret = r.ret])

\* x @ y
ActMatMul(x, y) ==
    /\ refs[x] # 0 /\ refs[y] # 0
    /\ \E r \in {MatMul(Start, refs[x], refs[y])} :
          Commit(r.m, refs,
                 [Call("matmul", x, y) EXCEPT !.exc = r.exc, !.ret = r.ret])

\* abs(x)
ActAbs(x) ==
    /\ refs[x] # 0
    /\ \E r \in {Abs(Start, refs[x])} :
          Commit(r.m, refs,
                 [Call("abs", x, "-") EXCEPT !.exc = r.exc, !.ret = r.ret])

\* list(x)
ActIter(x) ==
    /\ refs[x] # 0
    /\ \E r \in {Iterate(Start, refs[x], 0, <<>>)} :
          Commit(r.m, refs,
                 [Call("iter", x, "-") EXCEPT !.items = r.items,
                                              !.done = r.done])

\* value, error = gsl.sf.<fn>(..., scaled=scaled), the native call ending
\* as out says.
ActSfEval(fn, scaled, out) ==
    /\ fn \in SfFns
    /\ \E r \in {SfEval(out)} :
        Commit([Start EXCEPT !.st = <<out.status>>,
                             !.reports = IF out.status = 0 THEN 0 ELSE 1],
               refs,
               [LastInit EXCEPT !.op = "sf", !.fn = SfNative(fn, scaled),
                                !.out = out, !.exc = r.exc, !.pair = r.ret])

\* old = gsl.errors.set_error_handler(fn)
ActSetErrorHandler(fn) ==
    /\ IsCallable(fn) => Len(handlers) < MaxHandlers
    /\ fn.kind = "ErrorHandler" => fn.p \in Returned
    /\ \E r \in {set_error_handler(handler, handlers, fn)} :
          /\ handler' = r.handler
          /\ handlers' = r.handlers
          /\ last' = [LastInit EXCEPT !.op = "set_error_handler", !.hfn = fn,
                                      !.hwas = handler, !.hret = r.ret,
                                      !.exc = r.exc]
    /\ UNCHANGED <<objs, nat, tracked, refs, zeroOk, blocks, faults>>

Init ==
    /\ objs = [w \in ObjIds |-> NoObj]
    /\ nat = [p \in ObjIds |-> NoNat]
    /\ tracked = {}
    /\ refs = [n \in Names |-> 0]
    /\ zeroOk \in BOOLEAN
    /\ handler = no_error_handler
    /\ handlers = <<>>
    /\ blocks = [b \in BlockIds |-> NoNat]
    /\ faults = {}
    /\ last = LastInit

\* gsl.errors.set_error_handler(fn), in a program that installs one handler
\* and may turn it off.
ActSetHandlerOnce(fn) ==
    /\ fn = FnNone \/ handlers = <<>>
    /\ ActSetErrorHandler(fn)

\* p = gsl.block.alloc(size, typecode=typecode, init=init)
ActBlockAlloc(size, typecode, init) ==
    /\ \E b \in BlockIds : blocks[b].tc = "-"
    /\ \E r \in {block_alloc(blocks, zeroOk, size, typecode, init)} :
          /\ blocks' = r.blocks
          /\ last' = [LastInit EXCEPT !.op = "block.alloc",
                                      !.arg = SizeArg(size),
                                      !.tcarg = typecode, !.init = init,
                                      !.exc = r.exc, !.bp = r.p,
                                      !.allocs = r.allocs,
                                      !.nulls = IF r.allocs > 0 /\ r.p = 0
                                                THEN 1 ELSE 0,
                                      !.reports = IF r.allocs > 0 /\ r.p = 0
                                                  THEN 1 ELSE 0]
    /\ UNCHANGED <<objs, nat, tracked, refs, zeroOk, handler, handlers, faults>>

\* gsl.block.free(p, typecode=typecode), p a block the program holds
ActBlockFree(p, typecode) ==
    /\ blocks[p].tc # "-"
    /\ \E r \in {block_free(blocks, p, typecode)} :
          /\ blocks' = r.blocks
          /\ last' = [LastInit EXCEPT !.op = "block.free", !.bp = p,
                                      !.tcarg = typecode, !.exc = r.exc,
                                      !.preb = blocks[p], !.frees = r.frees]
    /\ UNCHANGED <<objs, nat, tracked, refs, zeroOk, handler, handlers, faults>>

\* e = gsl.errors.exception_from_result(code)
ActExceptionFromResult(code) ==
    /\ code \in Codes
    /\ last' = [LastInit EXCEPT !.op = "exception_from_result", !.code = code,
                                !.cls = exception_from_result(code)]
    /\ UNCHANGED <<objs, nat, tracked, refs, zeroOk, handler, handlers, blocks,
                   faults>>

\* e = gsl.errors.exception_from_result(code), then
\* gsl.errors.exception_on_error(reason, b"file", 1, code), which raises
ActExceptionOnError(reason, code) ==
    /\ code \in Codes
    /\ \E r \in {exception_on_error(reason, "file", 1, code)} :
          last' = [LastInit EXCEPT !.op = "exception_on_error", !.code = code,
                                   !.cls = exception_from_result(code),
                                   !.exc = r.raised, !.text = r.text]
    /\ UNCHANGED <<objs, nat, tracked, refs, zeroOk, handler, handlers, blocks,
                   faults>>

\* value = gsl.sf.<fn>(..., scaled=scaled), the native call ending as out
\* says.
ActSfDirect(fn, scaled, out) ==
    /\ fn \in SfDirectFns
    /\ \E r \in {SfDirect(handler, handlers, out)} :
          last' = [LastInit EXCEPT !.op = "sf_direct",
                                   !.fn = SfDirectNative(fn, scaled),
                                   !.out = out, !.exc = r.exc, !.ret = r.ret,
                                   !.called = r.called,
                                   !.st = <<out.status>>,
                                   !.reports = IF out.status = 0 THEN 0 ELSE 1]
    /\ UNCHANGED <<objs, nat, tracked, refs, zeroOk, handler, handlers, blocks,
                   faults>>

\* g = gsl_complex.from_complex(c); complex(g)
ActFromComplex(c) ==
    /\ c \in HostNumbers
    /\ last' = [LastInit EXCEPT !.op = "from_complex", !.val = c,
                                !.g = from_complex(c),
                                !.ret = to_complex(from_complex(c))]
    /\ UNCHANGED <<objs, nat, tracked, refs, zeroOk, handler, handlers, blocks,
                   faults>>

\* g == other
ActComplexEq(g, other) ==
    /\ other \in Others
    /\ last' = [LastInit EXCEPT !.op = "eq", !.g = g, !.other = other,
                                !.eq = gsl_complex_eq(g, other)]
    /\ UNCHANGED <<objs, nat, tracked, refs, zeroOk, handler, handlers, blocks,
                   faults>>

\* airy.<name>(x, [precision,] scaled=scaled)
ActAiry(name, precision, scaled, out) ==
    /\ name \in AiryNames
    /\ \E r \in {AiryCall(handler, handlers, name, precision, scaled, out)} :
          last' = [LastInit EXCEPT !.op = "airy", !.name = name,
                                   !.prec = precision, !.scaled = scaled,
                                   !.out = out, !.exc = r.exc,
                                   !.calls = r.calls, !.ret = r.ret,
                                   !.pair = r.pair]
    /\ UNCHANGED <<objs, nat, tracked, refs, zeroOk, handler, handlers, blocks,
                   faults>>

\* A program that builds vectors and does arithmetic on them.
Next ==
    \/ \E x \in Names, c \in ArithCtors : Construct(x, c.arg, c.tc)
    \/ \E x \in Names : Release(x)
    \/ \E x \in Names, z \in Names : ActCopy(x, z)
    \/ \E x \in Names, y \in Names : ActAdd(x, y)
    \/ \E x \in Names, y \in Names : ActIAdd(x, y)
    \/ \E x \in Names, y \in Names : ActDot(x, y)
    \/ \E x \in Names, y \in Names : ActMatMul(x, y)

Spec == Init /\ [][Next]_vars

\* A program that builds one vector at a time and reads and assigns elements.
NextAccess ==
    \/ \E arg \in ConstructArgs, tc \in Typecodes : Construct("a", arg, tc)
    \/ Release("a")
    \/ \E idx \in Indices : ActGetItem("a", idx)
    \/ \E idx \in Indices, val \in HostVals : ActSetItem("a", idx, val)

SpecAccess == Init /\ [][NextAccess]_vars

\* A program that calls what returns a native status, under either handler.
NextStatus ==
    \/ \E x \in Names, c \in StatusCtors : Construct(x, c.arg, c.tc)
    \/ \E x \in Names, z \in Names : ActCopy(x, z)
    \/ \E x \in Names, y \in Names : ActAdd(x, y)
    \/ \E x \in Names, y \in Names : ActIAdd(x, y)
    \/ \E x \in Names, y \in Names : ActDot(x, y)
    \/ \E c \in SfCalls, out \in SfOuts : ActSfEval(c.fn, c.scaled, out)
    \/ \E fn \in {FnNone, PyFn("exception_on_error")} : ActSetHandlerOnce(fn)

\* No allocation of this program is of size zero: the library is one that
\* serves them.
InitStatus == Init /\ zeroOk = TRUE

SpecStatus == InitStatus /\ [][NextStatus]_vars

\* A program that assigns elements of its vectors, copies them, adds them
\* and takes products and norms.
NextMutate ==
    \/ \E x \in Names, c \in MutateCtors : Construct(x, c.arg, c.tc)
    \/ \E x \in Names, idx \in MutateIndices : ActSetItem(x, idx, Real(1))
    \/ \E x \in Names, z \in Names : ActCopy(x, z)
    \/ \E x \in Names, y \in Names : ActAdd(x, y)
    \/ \E x \in Names, y \in Names : ActIAdd(x, y)
    \/ \E x \in Names, y \in Names : ActDot(x, y)
    \/ \E x \in Names : ActAbs(x)

SpecMutate == Init /\ [][NextMutate]_vars

\* A program that allocates and frees blocks, and builds vectors.
NextBlock ==
    \/ \E size \in BlockSizes, tc \in Typecodes, init \in BOOLEAN :
           ActBlockAlloc(size, tc, init)
    \/ \E p \in BlockIds, tc \in Typecodes : ActBlockFree(p, tc)
    \/ \E arg \in BlockCtors, tc \in Typecodes : Construct("a", arg, tc)

SpecBlock == Init /\ [][NextBlock]_vars

\* A program that translates status codes, replaces the error handler and
\* calls the direct forms of the special functions.
NextErrors ==
    \/ \E code \in Codes : ActExceptionFromResult(code)
    \/ \E fn \in HandlerArgs : ActSetErrorHandler(fn)
    \/ \E c \in SfDirectCalls, out \in SfOuts : ActSfDirect(c.fn, c.scaled, out)

SpecErrors == Init /\ [][NextErrors]_vars

\* A program that converts and compares complex numbers.
NextComplex ==
    \/ \E c \in HostNumbers : ActFromComplex(c)
    \/ \E g \in GslComplexes, other \in Others : ActComplexEq(g, other)

SpecComplex == Init /\ [][NextComplex]_vars

\* A program that translates status codes on both paths.
NextTranslate ==
    \/ \E code \in Codes : ActExceptionFromResult(code)
    \/ \E reason \in Reasons, code \in Codes : ActExceptionOnError(reason, code)

SpecTranslate == Init /\ [][NextTranslate]_vars

\* A program that builds vectors and calls what returns a new value: a sum,
\* a product, a norm, a copy.
NextFrame ==
    \/ \E x \in Names, c \in ArithCtors : Construct(x, c.arg, c.tc)
    \/ \E x \in Names, z \in Names : ActCopy(x, z)
    \/ \E x \in Names, y \in Names : ActAdd(x, y)
    \/ \E x \in Names, y \in Names : ActDot(x, y)
    \/ \E x \in Names, y \in Names : ActMatMul(x, y)
    \/ \E x \in Names : ActAbs(x)

SpecFrame == Init /\ [][NextFrame]_vars

\* A program that builds one vector at a time, iterates over it and takes
\* its norm.
NextRead ==
    \/ \E arg \in ConstructArgs, tc \in Typecodes : Construct("a", arg, tc)
    \/ ActIter("a")
    \/ ActAbs("a")

SpecRead == Init /\ [][NextRead]_vars

\* A program that calls the constructor with every kind of argument.
NextInit ==
    \/ \E arg \in InitArgs, tc \in Typecodes : Construct("a", arg, tc)
    \/ Release("a")

SpecInit == Init /\ [][NextInit]_vars

\* A program that evaluates Airy functions.
NextAiry ==
    \E name \in AiryNames, precision \in Precisions, scaled \in BOOLEAN,
       out \in SfOuts : ActAiry(name, precision, scaled, out)

SpecAiry == Init /\ [][NextAiry]_vars

\* ------------------------------------------------------------ properties
\* The vector the last operation was called on, as the client sees it now.
Now(x) == View(Start, refs[x])

\* The host value of a native element.
Host(tc, e) == IF tc = "C" THEN Cx(e[1], e[2]) ELSE Real(e)

\* C1: for every valid size n and typecode 'd' or 'C', Vector(n, typecode) is
\* built, has length exactly n, and before any mutation every index 0..n-1
\* reads back the zero of its element type.  A size is valid when the
\* allocator serves it: 1..MaxLen, and 0 where the library serves size zero.
C1_SizedVectorIsZero ==
    (/\ last.op = "Vector" /\ last.arg.kind = "size"
     /\ last.tcarg \in {"d", "C"}
     /\ last.arg.n \in 0..MaxLen /\ (last.arg.n = 0 => zeroOk))
    => /\ last.exc = "none"
       /\ last.res.tc = last.tcarg
       /\ Len(last.res.elems) = last.arg.n
       /\ \A i \in 1..Len(last.res.elems) :
              last.res.elems[i] = IF last.tcarg = "C" THEN Cx(0, 0) ELSE Real(0)
       /\ Now(last.x) = last.res

C1_Witness ==
    /\ last.op = "Vector" /\ last.arg = SizeArg(MaxLen) /\ last.tcarg = "C"
    /\ last.exc = "none"
    /\ Len(Now("a").elems) = MaxLen

\* C2: for every finite sequence s, Vector(s) has length len(s) and element i
\* reads back equal to s[i], in order; the construction fails only where the
\* allocator refuses the size (an empty s, on a library that serves no size
\* zero).
C2_SequenceIsCopiedInOrder ==
    (last.op = "Vector" /\ last.arg.kind = "seq" /\ last.tcarg = "None")
    => /\ last.exc # "none"
          => last.exc = "MemoryError" /\ last.arg.vals = <<>> /\ ~zeroOk
       /\ last.exc = "none"
          => /\ Len(last.res.elems) = Len(last.arg.vals)
             /\ \A i \in 1..Len(last.arg.vals) :
                    PyEq(last.res.elems[i], last.arg.vals[i])
             /\ Now(last.x) = last.res

C2_Witness ==
    /\ last.op = "Vector" /\ last.tcarg = "None"
    /\ last.arg = SeqArg(<<Real(1), Cx(2, 1)>>)
    /\ last.exc = "none"
    /\ Now("a").elems = <<Cx(1, 0), Cx(2, 1)>>

\* C3: indexed get is bounds-checked: for an index outside 0..len(v)-1,
\* negative ones included, v[i] raises IndexError and no native read is
\* performed; for an index inside it returns the stored element.
C3_GetIsBoundsChecked ==
    last.op = "getitem"
    => LET w == refs[last.x]
           v == nat[objs[w].vp]
       IN IF 0 <= last.idx /\ last.idx < v.size
          THEN /\ last.exc = "none"
               /\ last.ret = Host(objs[w].tc, v.data[last.idx + 1])
          ELSE /\ last.exc = "IndexError"
               /\ last.gets = 0
               /\ last.ret = NoVal

C3_Witness ==
    /\ last.op = "getitem" /\ last.idx = -1 /\ last.exc = "IndexError"
    /\ Len(last.prex.elems) = MaxLen

\* C4: indexed set is bounds-checked: for an index outside 0..len(v)-1 the
\* assignment v[i] = x raises IndexError, performs no native write (the native
\* setter is not reached), and leaves every element of v unchanged.
C4_SetIsBoundsChecked ==
    (last.op = "setitem"
     /\ ~(0 <= last.idx /\ last.idx < Len(last.prex.elems)))
    => /\ last.exc = "IndexError"
       /\ last.sets = 0
       /\ last.writes = {}
       /\ Now(last.x) = last.prex

\* The more general of two typecodes.
General(s, t) == IF s = "C" \/ t = "C" THEN "C" ELSE "d"

\* The operands of the last operation had the same length.
SameLength == Len(last.prex.elems) = Len(last.prey.elems)

RECURSIVE SumProd(_, _, _)
\* X[1] * Y[1] + ... + X[n] * Y[n] in Python's arithmetic.
SumProd(X, Y, n) ==
    IF n = 0 THEN Real(0)
    ELSE PyAdd(SumProd(X, Y, n - 1), PyMul(X[n], Y[n]))

\* C5: for equal-length vectors a and b of any typecode combination, a + b
\* and a += b both yield a Vector of the same length, of the more general of
\* the two typecodes, whose element i equals a[i] + b[i] (a real element
\* counting as a complex number with zero imaginary part).
C5_AddIsElementwise ==
    (last.op \in {"add", "iadd"} /\ SameLength)
    => /\ last.exc = "none"
       /\ last.res.tc = General(last.prex.tc, last.prey.tc)
       /\ Len(last.res.elems) = Len(last.prex.elems)
       /\ \A i \in 1..Len(last.prex.elems) :
              PyEq(last.res.elems[i],
                   PyAdd(last.prex.elems[i], last.prey.elems[i]))
       /\ last.op = "iadd" => Now(last.x) = last.res

C5_Witness ==
    /\ last.op = "iadd" /\ last.exc = "none"
    /\ last.prex.tc = "d" /\ last.prey.tc = "C"
    /\ Len(last.prex.elems) = MaxLen
    /\ Now(last.x).tc = "C"
    /\ Now(last.x).elems[1] = Cx(2, 1)

\* C6: for equal-length vectors a and b, a.dot(b) and a @ b equal the sum of
\* a[i] * b[i] with neither operand conjugated; the result is real when both
\* operands are real and complex otherwise.
C6_DotIsUnconjugatedSum ==
    (last.op \in {"dot", "matmul"} /\ SameLength)
    => /\ last.exc = "none"
       /\ PyEq(last.ret,
               SumProd(last.prex.elems, last.prey.elems, Len(last.prex.elems)))
       /\ IsReal(last.ret) <=> (last.prex.tc = "d" /\ last.prey.tc = "d")

C6_Witness ==
    /\ last.op = "dot" /\ last.exc = "none"
    /\ last.prex.tc = "C" /\ last.prey.tc = "C"
    /\ Len(last.prex.elems) = MaxLen
    /\ last.ret.im # 0

\* C7: the dot product is symmetric: for equal-length u and v (real/real,
\* complex/complex and mixed), u.dot(v) == v.dot(u), and u @ v == v @ u.
C7_DotIsSymmetric ==
    (last.op \in {"dot", "matmul"} /\ SameLength)
    => LET back == IF last.op = "dot"
                   THEN Dot(Start, refs[last.y], refs[last.x])
                   ELSE MatMul(Start, refs[last.y], refs[last.x])
       IN /\ last.exc = "none"
          /\ back.exc = "none"
          /\ PyEq(last.ret, back.ret)

C7_Witness ==
    /\ last.op = "matmul" /\ last.exc = "none"
    /\ last.prex.tc = "d" /\ last.prey.tc = "C"
    /\ Len(last.prex.elems) = MaxLen
    /\ last.ret.re # 0 /\ last.ret.im # 0

\* C8: for vectors a and b of different lengths, in every typecode
\* combination, each of a.dot(b), a @ b, a + b and a += b raises TypeError and
\* returns nothing, no truncated or partial result; the operands stay as
\* they were.
C8_LengthMismatchIsTypeError ==
    (last.op \in {"dot", "matmul", "add", "iadd"} /\ ~SameLength)
    => /\ last.exc = "TypeError"
       /\ last.ret = NoVal
       /\ last.res = NoView
       /\ Now(last.x) = last.prex
       /\ Now(last.y) = last.prey

C8_Witness ==
    /\ last.op = "iadd" /\ last.exc = "TypeError"
    /\ last.prex.tc = "C" /\ last.prey.tc = "d"
    /\ Len(last.prex.elems) = MaxLen /\ Len(last.prey.elems) = MaxLen - 1

\* C9: over every sequence of constructions (those that raise part-way
\* included), copies, coercions, additions, dot products and releases, each
\* native vector that was allocated is freed exactly once, only after its
\* wrapper became unreachable, and is never read or written after it was
\* freed; a null allocation is never freed.  In a state: nothing was lost,
\* freed twice or used after its release, every native vector that is
\* allocated belongs to a live wrapper registered to free it, and no
\* registration holds a null pointer.
C9_FreedExactlyOnce ==
    /\ faults = {}
    /\ ~last.uaf
    /\ \A t \in tracked : t.item # 0
    /\ \A w \in ObjIds : objs[w].tc # "-" => nat[objs[w].vp].tc # "-"
    /\ \A p \in ObjIds :
           nat[p].tc # "-"
           => \E t \in tracked : t.item = p /\ objs[t.owner].vp = p

\* C10: every wrapper operation that receives a native status (copy, add,
\* in-place add, dot and every "_e" evaluator) raises if and only if that
\* status is non-zero, positive or negative, under either handler; when the
\* status is zero it returns what the native call produced (for an "_e"
\* evaluator the (value, error) pair of the result struct).
C10_RaisesIffStatusNonZero ==
    /\ (last.op \in {"copy", "add", "iadd", "dot"} /\ last.st # <<>>)
       => /\ \A i \in 1..(Len(last.st) - 1) : last.st[i] = 0
          /\ last.exc # "none" <=> last.st[Len(last.st)] # 0
          /\ (last.exc = "none" /\ last.op = "dot")
             => PyEq(last.ret, SumProd(last.prex.elems, last.prey.elems,
                                       Len(last.prex.elems)))
          /\ (last.exc = "none" /\ last.op # "dot") => last.res # NoView
          /\ (last.exc = "none" /\ last.op = "copy") => last.res = last.prex
    /\ last.op = "sf"
       => /\ last.exc # "none" <=> last.out.status # 0
          /\ last.out.status = 0 => last.pair = <<last.out.val, last.out.err>>
          /\ last.out.status # 0 => last.pair = <<>>

C10_Witness ==
    /\ last.op = "sf" /\ last.out.status = -1 /\ last.exc = "Exception"
    /\ last.fn = "gsl_sf_airy_Ai_scaled_e"
    /\ handler # no_error_handler

\* C11: no error is silently swallowed: for every wrapper operation that
\* makes a native call (the direct-form special functions Ai, Bi, J0, J1, Jn
\* included), if the native call fails (the library reports an error) the
\* caller sees an exception rather than a normally returned value.
C11_NoErrorIsSwallowed ==
    last.reports > 0 => last.exc # "none"

\* C12: exception_from_result is total and table-driven: for every code in
\* 1..32 it yields an exception of exactly the category the fixed table
\* assigns to that code (8 out of memory, 12 division by zero, 16 overflow,
\* 19 type error, 24 not implemented, 32 end of file), and for every other
\* integer code (0, negative, above 32) the generic error category.
C12_TableDriven ==
    last.op = "exception_from_result"
    => /\ last.code \in 1..32 => last.cls = error_codes[last.code]
       /\ last.code \notin 1..32 => last.cls = "Exception"
       /\ last.code = 8 => last.cls = "MemoryError"
       /\ last.code = 12 => last.cls = "ZeroDivisionError"
       /\ last.code = 16 => last.cls = "OverflowError"
       /\ last.code = 19 => last.cls = "TypeError"
       /\ last.code = 24 => last.cls = "NotImplementedError"
       /\ last.code = 32 => last.cls = "EOFError"

C12_Witness ==
    /\ last.op = "exception_from_result"
    /\ last.code = 32 /\ last.cls = "EOFError"

C14_UnknownTypecodeIsValueError ==
    [][(\/ last'.op = "Vector" /\ last'.tcarg \notin {"d", "C", "None"}
        \/ last'.op \in {"block.alloc", "block.free"}
           /\ last'.tcarg \notin {"d", "C"})
       => /\ last'.exc = "ValueError"
          /\ last'.allocs = 0 /\ last'.frees = 0
          /\ nat' = nat /\ blocks' = blocks
          /\ objs' = objs /\ tracked' = tracked /\ refs' = refs
          /\ faults' = {}]_vars

C14_Witness ==
    /\ last.op = "block.free" /\ last.tcarg = "x" /\ last.exc = "ValueError"
    /\ last.preb.size = MaxLen
    /\ blocks[last.bp] = last.preb

\* C15: when no typecode is given, a Vector built from a sequence is real
\* ('d') if and only if every element of the sequence is a real number and
\* complex ('C') otherwise, and a Vector built from a size is real; when a
\* typecode is given explicitly it is the one used.
C15_TypecodeIsInferred ==
    (last.op = "Vector" /\ last.exc = "none")
    => /\ (last.tcarg = "None" /\ last.arg.kind = "seq")
          => last.res.tc = IF \A i \in 1..Len(last.arg.vals) :
                                 IsReal(last.arg.vals[i])
                           THEN "d" ELSE "C"
       /\ (last.tcarg = "None" /\ last.arg.kind = "size") => last.res.tc = "d"
       /\ last.tcarg # "None" => last.res.tc = last.tcarg
       /\ objs[refs[last.x]].tc = last.res.tc
       /\ nat[objs[refs[last.x]].vp].tc = last.res.tc

C15_Witness ==
    /\ last.op = "Vector" /\ last.exc = "none" /\ last.tcarg = "None"
    /\ Len(last.arg.vals) = MaxLen
    /\ IsReal(last.arg.vals[1]) /\ ~IsReal(last.arg.vals[MaxLen])
    /\ last.res.tc = "C"

\* C16: copy(v) returns a new Vector with the same length and typecode as v
\* and element-wise equal contents, backed by separately allocated storage:
\* any later element assignment to either the copy or the original is not
\* visible through the other.
C16_CopyIsSeparate ==
    [][/\ (last'.op = "copy" /\ last'.exc = "none")
          => /\ last'.res = last'.prex
             /\ ~last'.same
             /\ last'.allocs = 1
       /\ \A v \in ObjIds, w \in ObjIds :
              (v # w /\ objs'[v].tc # "-" /\ objs'[w].tc # "-")
              => objs'[v].vp # objs'[w].vp
       /\ last'.op = "setitem"
          => \A n \in Names \ {last'.x} : Now(n)' = Now(n)]_vars

C16_Witness ==
    /\ last.op = "setitem" /\ last.exc = "none" /\ last.idx = 0
    /\ refs["a"] # 0 /\ refs["b"] # 0
    /\ Now("a").tc = Now("b").tc
    /\ Len(Now("a").elems) = MaxLen /\ Len(Now("b").elems) = MaxLen
    /\ Now("a").elems # Now("b").elems

\* The step rebinds the name n: it is bound to a new object, or to none.
Rebound(n) ==
    \/ last'.op = "Vector" /\ last'.x = n /\ last'.exc = "none"
    \/ last'.op = "copy" /\ last'.exc = "none" /\ NameSeq[last'.ref] = n
    \/ last'.op = "iadd" /\ last'.x = n /\ last'.exc = "none" /\ ~last'.same
    \/ last'.op = "del" /\ last'.x = n

\* C17: the length and the element type (typecode) of an existing Vector
\* object never change: after any element assignment, addition, in-place
\* addition, dot product, norm, copy and coercion, len(v) and v's typecode
\* are what they were, for every object that is still bound to its name.
C17_LengthAndTypeAreFixed ==
    [][\A n \in Names :
          (refs[n] # 0 /\ ~Rebound(n))
          => /\ refs'[n] # 0
             /\ Now(n)'.tc = Now(n).tc
             /\ Len(Now(n)'.elems) = Len(Now(n).elems)]_vars

C17_Witness ==
    /\ last.op = "iadd" /\ last.exc = "none" /\ last.same
    /\ last.prex.tc = "C" /\ last.prey.tc = "C"
    /\ Len(last.prex.elems) = MaxLen
    /\ Now(last.x).elems # last.prex.elems

\* C18: set_error_handler(fn) returns the handler that was active immediately
\* before the call (also when fn is None), and passing that returned value to
\* a later set_error_handler call makes that previously active handler the
\* active one again.
C18_ReturnsAndRestoresPrevious ==
    (last.op = "set_error_handler" /\ last.exc = "none")
    => /\ last.hret = FnPtr(last.hwas)
       /\ last.hfn.kind = "ErrorHandler" => handler = last.hfn.p

\* C19: after any sequence of set_error_handler calls there is one active
\* native error handler, and whenever it wraps a host-language callable that
\* wrapper is held in the keep-alive list (and so is every wrapper a wrapper
\* in the list calls on to); entries are never removed from the list.
C19_HandlerIsKeptAlive ==
    [][/\ handler' \in 0..Len(handlers')
       /\ Len(handlers') >= Len(handlers)
       /\ SubSeq(handlers', 1, Len(handlers)) = handlers
       /\ \A i \in DOMAIN handlers' :
              handlers'[i].kind = "ErrorHandler" => handlers'[i].p \in 0..(i - 1)
       /\ Handles(handler', handlers') # "dangling"]_vars

C19_Witness ==
    /\ last.op = "set_error_handler" /\ last.hfn.kind = "ErrorHandler"
    /\ Len(handlers) = MaxHandlers /\ handler = MaxHandlers
    /\ handlers[handler].p # no_error_handler
    /\ Handles(handler, handlers) = "exception_on_error"

AiryEvaluators ==
    [Ai |-> <<"gsl_sf_airy_Ai", "gsl_sf_airy_Ai_scaled">>,
     Ai_e |-> <<"gsl_sf_airy_Ai_e", "gsl_sf_airy_Ai_scaled_e">>,
     Bi |-> <<"gsl_sf_airy_Bi", "gsl_sf_airy_Bi_scaled">>,
     Bi_e |-> <<"gsl_sf_airy_Bi_e", "gsl_sf_airy_Bi_scaled_e">>]

\* C21: for each of the Airy evaluators Ai, Ai_e, Bi and Bi_e, exactly one
\* native evaluator is called per invocation: the scaled native variant if
\* and only if scaled is true, otherwise the unscaled one, with the caller's
\* precision passed through unchanged and defaulting to double (mode 0) when
\* omitted.
C21_OneNativeEvaluator ==
    (last.op = "airy" /\ last.name \in {"Ai", "Ai_e", "Bi", "Bi_e"})
    => /\ Len(last.calls) = 1
       /\ last.calls[1].native
              = AiryEvaluators[last.name][IF last.scaled THEN 2 ELSE 1]
       /\ last.prec.given => last.calls[1].mode = last.prec.p
       /\ ~last.prec.given => last.calls[1].mode = 0

C21_Witness ==
    /\ last.op = "airy" /\ last.name = "Bi_e" /\ last.scaled
    /\ last.prec = GivenPrec(2)
    /\ last.calls = <<[native |-> "gsl_sf_airy_Bi_scaled_e", mode |-> 2]>>
    /\ last.exc = "none"

\* C25: the Airy module exposes the derivative evaluators Ai_deriv and
\* Ai_deriv_e, each callable as (x, precision, scaled=...) in the same direct
\* / "_e" pairing as Ai and Ai_e: a call of either reaches one native
\* evaluator and hands back a value, or a pair, or the error of the status.
C25_DerivativesAreExposed ==
    (last.op = "airy" /\ last.name \in {"Ai_deriv", "Ai_deriv_e"})
    => /\ last.exc # "AttributeError"
       /\ Len(last.calls) = 1

\* C22: a single positional argument to Vector() that is neither an iterable
\* with a length nor an integer (a non-integer number such as 3.5, or an
\* iterable without a length such as a generator) is rejected with an
\* argument error, and no vector is created.
C22_BadArgumentIsRejected ==
    (/\ last.op = "Vector" /\ last.arg.kind \in {"float", "gen"}
     /\ last.tcarg \in {"None", "d", "C"})
    => /\ last.exc = "ArgumentError"
       /\ last.res = NoView
       /\ last.allocs = 0

\* C23: Vector(n) with a negative integer n raises an out-of-memory error:
\* the count is reinterpreted as an unsigned size modulo 2^w, the native
\* allocator returns null for it, and no vector is created or registered for
\* finalization.
C23_NegativeSizeIsMemoryError ==
    (/\ last.op = "Vector" /\ last.arg.kind = "size" /\ last.arg.n < 0
     /\ last.tcarg \in {"None", "d", "C"})
    => /\ last.exc = "MemoryError"
       /\ last.nulls = 1
       /\ last.res = NoView

RECURSIVE SumMag2(_, _)
\* |X[1]|^2 + ... + |X[n]|^2 of host numbers.
SumMag2(X, n) ==
    IF n = 0 THEN 0
    ELSE SumMag2(X, n - 1) + X[n].re * X[n].re + X[n].im * X[n].im

C27_InPlaceIffSameTypecode ==
    (last.op = "iadd" /\ SameLength)
    => /\ last.exc = "none"
       /\ last.same <=> last.prex.tc = last.prey.tc
       /\ last.prex.tc = last.prey.tc
          => /\ last.allocs = 0
             /\ last.writes = {objs[refs[last.x]].vp}
             /\ last.postx = last.res
       /\ last.prex.tc # last.prey.tc
          => /\ last.postx = last.prex
             /\ last.allocs > 0
             /\ last.res.tc = "C"
             /\ \A i \in 1..Len(last.prex.elems) :
                    PyEq(last.res.elems[i],
                         PyAdd(last.prex.elems[i], last.prey.elems[i]))
       /\ Now(last.x) = last.res

C27_Witness ==
    /\ last.op = "iadd" /\ last.exc = "none" /\ ~last.same
    /\ last.prex.tc = "C" /\ last.prey.tc = "d"
    /\ Len(last.prex.elems) = MaxLen
    /\ last.postx = last.prex
    /\ last.res.elems # last.prex.elems

\* C28: when a + b, a += b, a.dot(b) or copy(a) raises (length mismatch or
\* any other non-zero native status), both operand vectors keep their length,
\* typecode and every element value exactly as before the call.
C28_FailureLeavesOperands ==
    (last.op \in {"add", "iadd", "dot", "copy"} /\ last.exc # "none")
    => /\ last.postx = last.prex
       /\ last.posty = last.prey
       /\ Now(last.x) = last.prex
       /\ last.y \in Names => Now(last.y) = last.prey
       /\ \A n \in Names : refs[n] # 0 => objs[refs[n]].vp \notin last.writes

C28_Witness ==
    /\ last.op = "iadd" /\ last.exc = "TypeError"
    /\ last.prex.tc = "d" /\ last.prey.tc = "d"
    /\ Len(last.prex.elems) = MaxLen /\ Len(last.prey.elems) = MaxLen - 1
    /\ last.prex.elems[1] # Real(0) /\ last.prey.elems[1] # Real(0)
    /\ last.st = <<GSL_EBADLEN>>

\* C29: the non-mutating operations a + b, a.dot(b), a @ b, abs(a), copy(a)
\* and the real-to-complex coercion used for mixed operands leave every
\* element, the length and the typecode of both a and b unchanged, for
\* same-type and mixed-type operands alike; any coerced or copied
\* intermediate is a separate vector: no storage of a vector the program
\* holds was written, but that of a copy it asked for, and no two vectors
\* share their storage.
C29_OperandsAreUnchanged ==
    last.op \in {"add", "dot", "matmul", "abs", "copy"}
    => /\ last.postx = last.prex
       /\ last.posty = last.prey
       /\ \A n \in Names :
              (refs[n] # 0 /\ ~(last.op = "copy" /\ refs[n] = last.ref))
              => objs[refs[n]].vp \notin last.writes
       /\ last.op # "copy" => refs[last.x] # 0 /\ Now(last.x) = last.prex
       /\ (last.op # "copy" /\ last.y \in Names) => Now(last.y) = last.prey
       /\ \A v \in ObjIds, w \in ObjIds :
              (v # w /\ objs[v].tc # "-" /\ objs[w].tc # "-")
              => objs[v].vp # objs[w].vp
       /\ ~last.uaf

C29_Witness ==
    /\ last.op = "add" /\ last.exc = "none"
    /\ last.prex.tc = "d" /\ last.prey.tc = "C"
    /\ Len(last.prex.elems) = MaxLen
    /\ last.allocs = 2
    /\ last.res.tc = "C"
    /\ last.postx = last.prex /\ last.posty = last.prey

\* C30: the two translation paths agree on category: for every integer error
\* code, the exception raised by the callback-style translator
\* exception_on_error(reason, file, line, code) has the same exception
\* category as the exception built by exception_from_result(code), including
\* the generic fallback for unmapped codes.
C30_TranslatorsAgree ==
    last.op = "exception_on_error"
    => /\ last.exc = last.cls
       /\ last.exc # "none"
       /\ last.code \notin 1..32 => last.exc = "Exception"
       /\ last.code \in 1..32 => last.exc = error_codes[last.code]

C30_Witness ==
    /\ last.op = "exception_on_error" /\ last.code = 16
    /\ last.exc = "OverflowError" /\ last.cls = "OverflowError"
    /\ last.text = "overflow"

====
